---- MODULE Spec2Model ----
(***************************************************************************)
(* Model of the credential generators and hash_string                      *)
(* (src/generator_tools.py), the batch runner generate_multiple, and the   *)
(* expression evaluator UnitConverter.calculate (src/unit_converter.py)    *)
(* with its dispatcher tool (src/server.py).                               *)
(*                                                                         *)
(* Spec runs one call at a time. SpecHash runs hash_string among other     *)
(* calls and keeps a history of the calls that ended; SpecShuffle runs     *)
(* generate_password with the shuffle loop traced; SpecThreads interleaves *)
(* the statements of two calls of generate_password.                       *)
(*                                                                         *)
(* Characters are modelled by one representative per character class: the  *)
(* generators only ever choose a character out of a class string or out of *)
(* a concatenation of class strings, and move characters around, so a      *)
(* representative stands for "some character of that class".               *)
(* A random draw is a nondeterministic choice.                             *)
(***************************************************************************)
EXTENDS Integers, Sequences, FiniteSets, TLC

VARIABLES
    pc,             \* position of the running call ("idle" when none runs)
    operation,      \* the operation that was called ("" when none runs)
    caller,         \* who invoked the running generator: "direct" or "batch"
    kwargs,         \* arguments of the running generator call
    password,       \* generate_password: the list `password`, then `shuffled`
    i,              \* generate_password: shuffle loop index (0-based, as in the code)
    draws,          \* number of random draws made by the running generator call
    result,         \* outcome of the last generator call (return value or raised error)
    generator_type, \* generate_multiple: its generator_type argument
    count,          \* generate_multiple: its count argument
    n,              \* generate_multiple: loop variable i of `for i in range(count)`
    results,        \* generate_multiple: the list `results`
    calls,          \* history: outcome of every generator invocation of the batch
    output,         \* generate_multiple: the returned text (header and lines)
    remaining_length, \* generate_password: characters still to draw for the fill
    expression,     \* calculate: the expression passed in (as a syntax tree)
    calc_result,    \* calculate: the value UnitConverter.calculate returns
    calc_path,      \* history: the return statement calculate left through
    eval_called,    \* history: whether the expression text was passed to eval()
    raised,         \* history: the exception class raised inside the try block
    tool_result,    \* calculate tool of the server: what it returns
    hash_args,      \* hash_string: its arguments text and algorithm
    history,        \* history: the calls that have ended, oldest first
    filled,         \* generate_password: the list `password` while `shuffled` is permuted
    order,          \* history: for each position of `shuffled`, the position of
                    \* `password` its character came from (1-based)
    js,             \* history: the values of j drawn by the shuffle loop so far
    threads,        \* concurrent calls of generate_password: the locals of each
    lists,          \* concurrent calls: the list objects the calls have created
    stream          \* concurrent calls: number of draws the random source has delivered

vars == <<pc, operation, caller, kwargs, password, i, draws, result,
          generator_type, count, n, results, calls, output, remaining_length,
          expression, calc_result, calc_path, eval_called, raised, tool_result,
          hash_args, history, filled, order, js, threads, lists, stream>>

batch_vars == <<generator_type, count, n, results, calls, output>>
password_vars == <<password, i, remaining_length>>
calc_vars == <<expression, calc_result, calc_path, eval_called, raised, tool_result>>
generator_vars == <<caller, kwargs, draws, result>>
hash_vars == <<hash_args, history>>
shuffle_history == <<filled, order, js>>
thread_vars == <<threads, lists, stream>>
extension_vars == <<hash_vars, shuffle_history, thread_vars>>
single_vars == <<pc, operation, generator_vars, password_vars, batch_vars, calc_vars,
                 hash_vars, shuffle_history>>

\* The generator the running call executes.
called == IF operation = "generate_multiple" THEN generator_type ELSE operation

(* ------------------------------ bounds --------------------------------- *)
MaxPwLen == 8
MaxApiKeyLen == 16
MaxPinLen == 4
MaxTokenBytes == 2
MaxVersion == 5
MaxCount == 2
MaxHistory == 3

(* --------------------------- program constants -------------------------- *)
MinPasswordLength == 8
MinApiKeyLength == 16
MinPinLength == 4

BOOL == {TRUE, FALSE}

\* string.ascii_uppercase, string.ascii_lowercase, string.digits and the symbol
\* string of generate_password, each by one representative character.
ascii_uppercase == {"A"}
ascii_lowercase == {"a"}
digits == {"0"}
symbols == {"!"}
ascii_letters == ascii_lowercase \cup ascii_uppercase

HexDigits == <<"0", "1", "2", "3", "4", "5", "6", "7", "8", "9",
               "a", "b", "c", "d", "e", "f">>

\* Sample values of one random byte (os.urandom).
Bytes == {0, 9, 10, 175, 255}
\* Sample values of one random nibble repeated over the 128 bits of a UUID.
Nibbles == {0, 6, 15}

(* ------------------------------ outcomes -------------------------------- *)
NoResult == [kind |-> "none", value |-> <<>>, exc |-> "", msg |-> ""]
Return(v) == [kind |-> "return", value |-> v, exc |-> "", msg |-> ""]
Raise(e, m) == [kind |-> "raise", value |-> <<>>, exc |-> e, msg |-> m]

NoKwargs ==
    [length |-> 0, version |-> 0, include_uppercase |-> FALSE,
     include_lowercase |-> FALSE, include_digits |-> FALSE, include_symbols |-> FALSE]

\* Where a generator goes when it returns or raises.
ReturnTo(c) == IF c = "batch" THEN "batch_record" ELSE "done"

\* ''.join(secrets.choice(pool) for _ in range(length)): the strings the model
\* draws, the draw sequences of period two over the pool (range(length) is empty
\* for length <= 0).
join_choice(pool, length) ==
    {[k \in 1..length |-> IF k % 2 = 1 THEN a ELSE b] : a \in pool, b \in pool}

(* ------------------------- generate_uuid -------------------------------- *)
\* The 32 hexadecimal digits of uuid.uuid1() / uuid.uuid4(): random (or clock and
\* node) bits h everywhere, the version digit at position 13 and the variant
\* digit (binary 10xx) at position 17.
uuid_hex(version, h) ==
    [k \in 1..32 |-> IF k = 13 THEN HexDigits[version + 1]
                     ELSE IF k = 17 THEN HexDigits[8 + (h % 4) + 1]
                     ELSE HexDigits[h + 1]]

\* str(UUID): the groups hex[:8], hex[8:12], hex[12:16], hex[16:20], hex[20:]
\* joined by hyphens.
uuid_str(hex) ==
    SubSeq(hex, 1, 8) \o <<"-">> \o SubSeq(hex, 9, 12) \o <<"-">> \o
    SubSeq(hex, 13, 16) \o <<"-">> \o SubSeq(hex, 17, 20) \o <<"-">> \o
    SubSeq(hex, 21, 32)

generate_uuid_mutant(version, h) ==
    IF version = 1 \/ version = 4 \/ version = 3
    THEN Return(uuid_str(uuid_hex(version, h)))
    ELSE Raise("ValueError", "Only UUID version 1 and 4 are supported")

generate_uuid(version, h) ==
    IF version = 1 THEN Return(uuid_str(uuid_hex(1, h)))
    ELSE IF version = 4 THEN Return(uuid_str(uuid_hex(4, h)))
    ELSE Raise("ValueError", "Only UUID version 1 and 4 are supported")

call_generate_uuid ==
    /\ pc = "uuid"
    /\ \E h \in Nibbles :
          /\ result' = generate_uuid(kwargs.version, h)
          /\ draws' = IF result'.kind = "return" THEN 1 ELSE 0
    /\ pc' = ReturnTo(caller)
    /\ UNCHANGED <<operation, caller, kwargs, password_vars, batch_vars, calc_vars>>
    /\ UNCHANGED extension_vars

(* ------------------------ generate_api_key ------------------------------ *)
api_key_characters == ascii_letters \cup digits

generate_api_key_mutant(length) ==
    IF length <= MinApiKeyLength
    THEN {Raise("ValueError", "API key length must be at least 16 characters")}
    ELSE {Return(s) : s \in join_choice(api_key_characters, length)}

generate_api_key(length) ==
    IF length < MinApiKeyLength
    THEN {Raise("ValueError", "API key length must be at least 16 characters")}
    ELSE {Return(s) : s \in join_choice(api_key_characters, length)}

call_generate_api_key ==
    /\ pc = "api_key"
    /\ \E r \in generate_api_key(kwargs.length) :
          /\ result' = r
          /\ draws' = Len(r.value)
    /\ pc' = ReturnTo(caller)
    /\ UNCHANGED <<operation, caller, kwargs, password_vars, batch_vars, calc_vars>>
    /\ UNCHANGED extension_vars

(* ------------------------- generate_token ------------------------------- *)
\* binascii.hexlify of one byte: two lowercase hexadecimal digits.
hexlify_mutant(b) == <<HexDigits[(b % 16) + 1]>>

hexlify(b) == <<HexDigits[(b \div 16) + 1], HexDigits[(b % 16) + 1]>>

RECURSIVE hex_of(_)
hex_of(bs) == IF bs = <<>> THEN <<>> ELSE hexlify(Head(bs)) \o hex_of(Tail(bs))

\* secrets.token_hex(length): os.urandom raises ValueError for a negative
\* length and returns no bytes for length 0.
generate_token(length) ==
    IF length < 0
    THEN {Raise("ValueError", "negative argument not allowed")}
    ELSE {Return(hex_of(bs)) : bs \in [1..length -> Bytes]}

call_generate_token ==
    /\ pc = "token"
    /\ \E r \in generate_token(kwargs.length) :
          /\ result' = r
          /\ draws' = IF r.kind = "return" THEN 1 ELSE 0
    /\ pc' = ReturnTo(caller)
    /\ UNCHANGED <<operation, caller, kwargs, password_vars, batch_vars, calc_vars>>
    /\ UNCHANGED extension_vars

(* -------------------------- generate_pin -------------------------------- *)
generate_pin_mutant(length) ==
    IF length < MinPinLength
    THEN {Raise("ValueError", "PIN length must be at least 4 digits")}
    ELSE {Return(s) : s \in join_choice(digits, length - 1)}

generate_pin(length) ==
    IF length < MinPinLength
    THEN {Raise("ValueError", "PIN length must be at least 4 digits")}
    ELSE {Return(s) : s \in join_choice(digits, length)}

call_generate_pin ==
    /\ pc = "pin"
    /\ \E r \in generate_pin(kwargs.length) :
          /\ result' = r
          /\ draws' = Len(r.value)
    /\ pc' = ReturnTo(caller)
    /\ UNCHANGED <<operation, caller, kwargs, password_vars, batch_vars, calc_vars>>
    /\ UNCHANGED extension_vars

(* ------------------------ generate_password ----------------------------- *)
\* The character pool `characters` built from the four flags.
characters(k) ==
    (IF k.include_uppercase THEN ascii_uppercase ELSE {}) \cup
    (IF k.include_lowercase THEN ascii_lowercase ELSE {}) \cup
    (IF k.include_digits THEN digits ELSE {}) \cup
    (IF k.include_symbols THEN symbols ELSE {})

\* The two validations, in the order of the code; NoResult when both pass.
password_check_mutant(k) ==
    IF k.length < MinPasswordLength - 1
    THEN Raise("ValueError", "Password length must be at least 8 characters")
    ELSE NoResult

password_check(k) ==
    IF k.length < MinPasswordLength
    THEN Raise("ValueError", "Password length must be at least 8 characters")
    ELSE IF characters(k) = {}
    THEN Raise("ValueError", "At least one character type must be selected")
    ELSE NoResult

call_generate_password ==
    /\ pc = "password"
    /\ draws' = 0
    /\ password' = <<>>
    /\ i' = 0
    /\ remaining_length' = 0
    /\ IF password_check(kwargs).kind = "raise"
       THEN result' = password_check(kwargs) /\ pc' = ReturnTo(caller)
       ELSE result' = NoResult /\ pc' = "seed_uppercase"
    /\ UNCHANGED <<operation, caller, kwargs, batch_vars, calc_vars>>
    /\ UNCHANGED extension_vars

\* if include_<class>: password.append(secrets.choice(<class string>))
seed(at, flag, class, next) ==
    /\ pc = at
    /\ pc' = next
    /\ IF flag
       THEN \E c \in class : password' = Append(password, c) /\ draws' = draws + 1
       ELSE UNCHANGED <<password, draws>>
    /\ UNCHANGED <<operation, caller, kwargs, i, result, batch_vars, calc_vars>>

seed_uppercase ==
    /\ seed("seed_uppercase", kwargs.include_uppercase, ascii_uppercase, "seed_lowercase")
    /\ UNCHANGED remaining_length
    /\ UNCHANGED extension_vars

seed_lowercase ==
    /\ seed("seed_lowercase", kwargs.include_lowercase, ascii_lowercase, "seed_digits")
    /\ UNCHANGED remaining_length
    /\ UNCHANGED extension_vars

seed_digits ==
    /\ seed("seed_digits", kwargs.include_digits, digits, "seed_symbols")
    /\ UNCHANGED remaining_length
    /\ UNCHANGED extension_vars

remaining_mutant(length, pw) == length - 4

\* remaining_length = length - len(password)
remaining(length, pw) == length - Len(pw)

seed_symbols ==
    /\ seed("seed_symbols", kwargs.include_symbols, symbols, "fill")
    /\ remaining_length' = remaining(kwargs.length, password')
    /\ UNCHANGED extension_vars

\* password.extend(secrets.choice(characters) for _ in range(remaining_length)),
\* then shuffled = list(password) and the loop variable's first value.
fill_step ==
    /\ pc = "fill"
    /\ IF remaining_length > 0
       THEN /\ \E c \in characters(kwargs) : password' = Append(password, c)
            /\ remaining_length' = remaining_length - 1
            /\ draws' = draws + 1
            /\ UNCHANGED <<pc, i>>
       ELSE /\ pc' = "shuffle"
            /\ i' = Len(password) - 1
            /\ UNCHANGED <<password, remaining_length, draws>>
    /\ UNCHANGED <<operation, caller, kwargs, result, batch_vars, calc_vars>>

fill ==
    /\ fill_step
    /\ UNCHANGED extension_vars

\* secrets.randbelow(m): the values it can return.
randbelow_mutant(m) == 0..(m - 2)

randbelow(m) == 0..(m - 1)

\* shuffled[i], shuffled[j] = shuffled[j], shuffled[i] (0-based indices)
swap(s, a, b) == [s EXCEPT ![a + 1] = s[b + 1], ![b + 1] = s[a + 1]]

\* for i in range(len(shuffled) - 1, 0, -1): j = randbelow(i + 1); swap;
\* then return ''.join(shuffled)
shuffle_swap(j) ==
    /\ pc = "shuffle"
    /\ password' = swap(password, i, j)
    /\ i' = i - 1
    /\ draws' = draws + 1
    /\ UNCHANGED <<pc, result>>
    /\ UNCHANGED <<operation, caller, kwargs, remaining_length, batch_vars, calc_vars>>

shuffle_return ==
    /\ pc = "shuffle"
    /\ result' = Return(password)
    /\ pc' = ReturnTo(caller)
    /\ UNCHANGED <<password, i, draws>>
    /\ UNCHANGED <<operation, caller, kwargs, remaining_length, batch_vars, calc_vars>>

shuffle ==
    /\ IF i >= 1
       THEN \E j \in randbelow(i + 1) : shuffle_swap(j)
       ELSE shuffle_return
    /\ UNCHANGED extension_vars

(* ------------------------- direct dispatch ------------------------------ *)
Flags == [include_uppercase : BOOL, include_lowercase : BOOL,
          include_digits : BOOL, include_symbols : BOOL]

with_flags(k, f) ==
    [k EXCEPT !.include_uppercase = f.include_uppercase,
              !.include_lowercase = f.include_lowercase,
              !.include_digits = f.include_digits,
              !.include_symbols = f.include_symbols]

\* The arguments the model passes to each generator when it is called alone.
DirectKwargs(type) ==
    CASE type = "uuid" -> {[NoKwargs EXCEPT !.version = v] : v \in 0..MaxVersion}
      [] type = "password" ->
            {with_flags([NoKwargs EXCEPT !.length = l], f) :
                l \in {0} \cup (MinPasswordLength - 1)..MaxPwLen, f \in Flags}
      [] type = "api_key" ->
            {[NoKwargs EXCEPT !.length = l] :
                l \in {0} \cup (MinApiKeyLength - 1)..MaxApiKeyLen}
      [] type = "token" -> {[NoKwargs EXCEPT !.length = l] : l \in (-1)..MaxTokenBytes}
      [] type = "pin" ->
            {[NoKwargs EXCEPT !.length = l] : l \in {0} \cup (MinPinLength - 1)..MaxPinLen}

\* The keys of the `generators` table of generate_multiple.
generators == {"uuid", "password", "api_key", "token", "pin"}

\* The generator `type` of GeneratorTools is called on its own with arguments k.
call_direct(type, k) ==
    /\ pc = "idle"
    /\ pc' = type
    /\ operation' = type
    /\ kwargs' = k
    /\ caller' = "direct"
    /\ draws' = 0
    /\ result' = NoResult
    /\ UNCHANGED <<password_vars, batch_vars, calc_vars>>
    /\ UNCHANGED extension_vars

\* A generator of GeneratorTools, one of `types`, is called on its own.
dispatch_of(types) == \E type \in types : \E k \in DirectKwargs(type) : call_direct(type, k)

dispatch == dispatch_of(generators)

(* ------------------------ generate_multiple ----------------------------- *)
\* The exception classes that `except Exception` catches.
Exceptions ==
    {"ValueError", "TypeError", "NameError", "AttributeError",
     "ZeroDivisionError", "SyntaxError"}

NoOutput == [kind |-> "none", count |-> 0, type |-> "", lines |-> <<>>]

\* The arguments the model passes through generate_multiple (**kwargs): each
\* generator once with arguments it accepts and once with arguments it rejects.
BatchKwargs(type) ==
    CASE type = "uuid" -> {[NoKwargs EXCEPT !.version = v] : v \in {3, 4}}
      [] type = "password" ->
            {[NoKwargs EXCEPT !.length = l, !.include_digits = d] :
                l \in (MinPasswordLength - 1)..MinPasswordLength, d \in BOOL}
      [] type = "api_key" ->
            {[NoKwargs EXCEPT !.length = l] :
                l \in (MinApiKeyLength - 1)..MinApiKeyLength}
      [] type = "token" -> {[NoKwargs EXCEPT !.length = l] : l \in (-1)..1}
      [] type = "pin" ->
            {[NoKwargs EXCEPT !.length = l] : l \in (MinPinLength - 1)..MinPinLength}
      [] OTHER -> {NoKwargs}

\* generate_multiple up to the loop: an unknown generator_type returns at once.
generate_multiple ==
    /\ pc = "idle"
    /\ \E type \in generators \cup {"hash"}, c \in 0..MaxCount :
          /\ generator_type' = type
          /\ count' = c
          /\ \E k \in BatchKwargs(type) : kwargs' = k
          /\ IF type \notin generators
             THEN /\ pc' = "done"
                  /\ output' = [NoOutput EXCEPT !.kind = "invalid", !.type = type]
             ELSE /\ pc' = "batch_loop"
                  /\ output' = NoOutput
    /\ caller' = "batch"
    /\ operation' = "generate_multiple"
    /\ n' = 0
    /\ results' = <<>>
    /\ calls' = <<>>
    /\ draws' = 0
    /\ result' = NoResult
    /\ UNCHANGED <<password_vars, calc_vars>>
    /\ UNCHANGED extension_vars

\* for i in range(count): item = generator(**kwargs); after the loop the header
\* and the joined lines are returned.
batch_loop ==
    /\ pc = "batch_loop"
    /\ IF n < count
       THEN /\ pc' = generator_type
            /\ UNCHANGED output
       ELSE /\ pc' = "done"
            /\ output' = [kind |-> "list", count |-> count,
                          type |-> generator_type, lines |-> results]
    /\ UNCHANGED <<operation, caller, kwargs, password_vars, draws, result,
                   generator_type, count, n, results, calls, calc_vars>>
    /\ UNCHANGED extension_vars

\* f"{i+1}. {item}" and f"{i+1}. Error: {str(e)}"
entry(k, r) ==
    IF r.kind = "return"
    THEN [index |-> k + 1, sep |-> ". ", text |-> r.value]
    ELSE [index |-> k + 1, sep |-> ". Error: ", text |-> <<r.msg>>]

\* Whether the loop goes on after an invocation that ended as r: the try block
\* catches every Exception and the loop has no break.
continues_mutant(r) == r.kind = "return"

continues(r) == r.kind = "return" \/ r.exc \in Exceptions

\* The generator has returned or raised inside the try block of the loop.
batch_record ==
    /\ pc = "batch_record"
    /\ calls' = Append(calls, result)
    /\ IF continues(result)
       THEN /\ results' = Append(results, entry(n, result))
            /\ n' = n + 1
            /\ pc' = "batch_loop"
       ELSE /\ pc' = "escaped"
            /\ UNCHANGED <<results, n>>
    /\ UNCHANGED <<operation, caller, kwargs, password_vars, draws, result,
                   generator_type, count, output, calc_vars>>
    /\ UNCHANGED extension_vars

(* ---------------------- UnitConverter.calculate -------------------------- *)
\* Expressions are given as syntax trees; Text is the string that is passed to
\* calculate. Every node has the same fields so that trees can be compared.
Num(v) == [node |-> "num", num |-> v, id |-> "", kids |-> <<>>]
Name(x) == [node |-> "name", num |-> 0, id |-> x, kids |-> <<>>]
Str(x) == [node |-> "str", num |-> 0, id |-> x, kids |-> <<>>]
Call(f, a) == [node |-> "call", num |-> 0, id |-> "", kids |-> <<f, a>>]
BinOp(op, l, r) == [node |-> "binop", num |-> 0, id |-> op, kids |-> <<l, r>>]
Attr(x, a) == [node |-> "attr", num |-> 0, id |-> a, kids |-> <<x>>]
Import(m) == [node |-> "import", num |-> 0, id |-> m, kids |-> <<>>]
Malformed == [node |-> "malformed", num |-> 0, id |-> "", kids |-> <<>>]

\* The characters of the words the sample expressions are written with.
Spelling ==
    ("abs" :> <<"a", "b", "s">>) @@
    ("round" :> <<"r", "o", "u", "n", "d">>) @@
    ("min" :> <<"m", "i", "n">>) @@
    ("max" :> <<"m", "a", "x">>) @@
    ("sum" :> <<"s", "u", "m">>) @@
    ("pow" :> <<"p", "o", "w">>) @@
    ("sqrt" :> <<"s", "q", "r", "t">>) @@
    ("sin" :> <<"s", "i", "n">>) @@
    ("cos" :> <<"c", "o", "s">>) @@
    ("tan" :> <<"t", "a", "n">>) @@
    ("log" :> <<"l", "o", "g">>) @@
    ("log10" :> <<"l", "o", "g", "1", "0">>) @@
    ("exp" :> <<"e", "x", "p">>) @@
    ("pi" :> <<"p", "i">>) @@
    ("e" :> <<"e">>) @@
    ("ceil" :> <<"c", "e", "i", "l">>) @@
    ("floor" :> <<"f", "l", "o", "o", "r">>) @@
    ("foo" :> <<"f", "o", "o">>) @@
    ("os" :> <<"o", "s">>) @@
    ("__import__" :> <<"_", "_", "i", "m", "p", "o", "r", "t", "_", "_">>) @@
    ("EXEC" :> <<"E", "X", "E", "C">>) @@
    ("real" :> <<"r", "e", "a", "l">>) @@
    ("system" :> <<"s", "y", "s", "t", "e", "m">>) @@
    ("__class__" :> <<"_", "_", "c", "l", "a", "s", "s", "_", "_">>)

\* str.lower() of one character (the only uppercase letters of the samples).
lower_char(c) ==
    CASE c = "E" -> "e" [] c = "X" -> "x" [] c = "C" -> "c" [] OTHER -> c

lower(text) == [k \in 1..Len(text) |-> lower_char(text[k])]

\* word in text
contains(text, word) ==
    \E k \in 1..(Len(text) - Len(word) + 1) :
        SubSeq(text, k, k + Len(word) - 1) = word

RECURSIVE Text(_)
Text(x) ==
    CASE x.node = "num" ->
            IF x.num < 0 THEN <<"-", HexDigits[1 - x.num]>> ELSE <<HexDigits[x.num + 1]>>
      [] x.node = "name" -> Spelling[x.id]
      [] x.node = "str" -> <<"'">> \o Spelling[x.id] \o <<"'">>
      [] x.node = "call" -> Text(x.kids[1]) \o <<"(">> \o Text(x.kids[2]) \o <<")">>
      [] x.node = "binop" ->
            <<"(">> \o Text(x.kids[1]) \o <<x.id>> \o Text(x.kids[2]) \o <<")">>
      [] x.node = "attr" -> <<"(">> \o Text(x.kids[1]) \o <<")", ".">> \o Spelling[x.id]
      [] x.node = "import" ->
            <<"i", "m", "p", "o", "r", "t", " ">> \o Spelling[x.id]
      [] x.node = "malformed" -> <<"1", "+">>

\* The list `forbidden`.
forbidden ==
    {<<"_", "_">>,
     <<"i", "m", "p", "o", "r", "t">>,
     <<"e", "v", "a", "l">>,
     <<"e", "x", "e", "c">>,
     <<"o", "p", "e", "n">>,
     <<"f", "i", "l", "e">>,
     <<"c", "o", "m", "p", "i", "l", "e">>}

\* any(word in expression.lower() for word in forbidden)
has_forbidden(text) == \E word \in forbidden : contains(lower(text), word)

(* Python values: int, float (in thousandths), str (a sequence of pieces) and
   built-in function objects. *)
PyInt(v) == [t |-> "int", v |-> v, s |-> <<>>]
PyFloat(m) == [t |-> "float", v |-> m, s |-> <<>>]
PyStr(pieces) == [t |-> "str", v |-> 0, s |-> pieces]
PyBuiltin(name) == [t |-> "builtin", v |-> 0, s |-> <<name>>]
PyNone == [t |-> "none", v |-> 0, s |-> <<>>]

is_number(x) == x.t \in {"int", "float"}
milli(x) == IF x.t = "int" THEN x.v * 1000 ELSE x.v

\* The names of safe_dict bound to functions, and safe_dict itself.
safe_functions ==
    {"abs", "round", "min", "max", "sum", "pow", "sqrt", "sin", "cos", "tan",
     "log", "log10", "exp", "ceil", "floor"}

safe_dict ==
    [name \in safe_functions \cup {"pi", "e"} |->
        IF name = "pi" THEN PyFloat(3142)
        ELSE IF name = "e" THEN PyFloat(2718)
        ELSE PyBuiltin(name)]

\* Outcome of evaluating a (sub)expression: a value or a raised exception.
Value(x) == [ok |-> TRUE, val |-> x, exc |-> "", msg |-> ""]
Throw(e, m) == [ok |-> FALSE, val |-> PyNone, exc |-> e, msg |-> m]

RECURSIVE isqrt(_)
isqrt(y) ==
    IF y < 2 THEN y
    ELSE LET small == 2 * isqrt(y \div 4)
         IN  IF (small + 1) * (small + 1) > y THEN small ELSE small + 1

\* Natural logarithm of m thousandths, in thousandths (ln 2 = 0.693, and
\* ln(1 + y) taken as y between powers of two).
RECURSIVE ln(_)
ln(m) == IF m < 2000 THEN m - 1000 ELSE 693 + ln(m \div 2)

\* Calling a built-in function of safe_dict with one argument (the functions the
\* sample expressions call).
apply(f, x) ==
    CASE f = "abs" ->
            IF is_number(x)
            THEN Value([x EXCEPT !.v = IF x.v < 0 THEN 0 - x.v ELSE x.v])
            ELSE Throw("TypeError", "bad operand type for abs()")
      [] f = "sqrt" ->
            IF ~is_number(x) THEN Throw("TypeError", "must be real number")
            ELSE IF milli(x) < 0 THEN Throw("ValueError", "math domain error")
            ELSE Value(PyFloat(isqrt(milli(x) * 1000)))
      [] f = "log" ->
            IF ~is_number(x) THEN Throw("TypeError", "must be real number")
            ELSE IF milli(x) <= 0 THEN Throw("ValueError", "math domain error")
            ELSE Value(PyFloat(ln(milli(x))))

\* left + right and left / right
binary(op, l, r) ==
    IF op = "+"
    THEN IF l.t = "int" /\ r.t = "int" THEN Value(PyInt(l.v + r.v))
         ELSE IF is_number(l) /\ is_number(r) THEN Value(PyFloat(milli(l) + milli(r)))
         ELSE IF l.t = "str" /\ r.t = "str" THEN Value(PyStr(l.s \o r.s))
         ELSE Throw("TypeError", "unsupported operand type(s) for +")
    ELSE IF ~(is_number(l) /\ is_number(r))
         THEN Throw("TypeError", "unsupported operand type(s) for /")
         ELSE IF milli(r) = 0 THEN Throw("ZeroDivisionError", "division by zero")
         ELSE Value(PyFloat((milli(l) * 1000) \div milli(r)))

\* getattr(x, a): numbers have the attribute real; no sample value has another
\* attribute whose name is free of "__".
attribute(x, a) ==
    IF a = "real" /\ is_number(x) THEN Value(x)
    ELSE Throw("AttributeError", "object has no attribute")

\* eval(expression, {"__builtins__": {}}, safe_dict): names are looked up in
\* safe_dict only; operands are evaluated left to right and the first exception
\* ends the evaluation.
RECURSIVE eval(_)
eval(x) ==
    CASE x.node = "num" -> Value(PyInt(x.num))
      [] x.node = "str" -> Value(PyStr(<<x.id>>))
      [] x.node = "name" ->
            IF x.id \in DOMAIN safe_dict THEN Value(safe_dict[x.id])
            ELSE Throw("NameError", "name is not defined")
      [] x.node = "call" ->
            LET f == eval(x.kids[1]) IN
            IF ~f.ok THEN f
            ELSE LET a == eval(x.kids[2]) IN
                 IF ~a.ok THEN a
                 ELSE IF f.val.t # "builtin"
                 THEN Throw("TypeError", "object is not callable")
                 ELSE apply(f.val.s[1], a.val)
      [] x.node = "binop" ->
            LET l == eval(x.kids[1]) IN
            IF ~l.ok THEN l
            ELSE LET r == eval(x.kids[2]) IN
                 IF ~r.ok THEN r ELSE binary(x.id, l.val, r.val)
      [] x.node = "attr" ->
            LET o == eval(x.kids[1]) IN
            IF ~o.ok THEN o ELSE attribute(o.val, x.id)
      [] x.node = "import" -> Throw("SyntaxError", "invalid syntax")
      [] x.node = "malformed" -> Throw("SyntaxError", "invalid syntax")

\* round(result, 10) of a float: the floats of the model carry three decimals,
\* which rounding to ten decimals keeps.
round10(x) == [x EXCEPT !.v = (x.v * 1000) \div 1000]

\* The exception classes the handler of calculate catches (except Exception).
caught_mutant == {"ValueError"}

caught == Exceptions

\* UnitConverter.calculate: the value returned, the return statement taken,
\* whether eval() ran and the exception class it raised.
calculate(x) ==
    IF has_forbidden(Text(x))
    THEN [path |-> "forbidden", eval_called |-> FALSE, raised |-> "",
          value |-> PyStr(<<"[x] Expression contains forbidden operations">>)]
    ELSE LET r == eval(x) IN
         IF r.ok
         THEN [path |-> "returned", eval_called |-> TRUE, raised |-> "",
               value |-> IF r.val.t = "float" THEN round10(r.val) ELSE r.val]
         ELSE IF r.exc \in caught
         THEN [path |-> "except", eval_called |-> TRUE, raised |-> r.exc,
               value |-> PyStr(<<"[x] Calculation error: ", r.msg>>)]
         ELSE [path |-> "escaped", eval_called |-> TRUE, raised |-> r.exc,
               value |-> PyNone]

\* The sample expressions.
Atoms ==
    {Num(v) : v \in {-1, 0, 4}} \cup {Str("os")} \cup
    {Name(x) : x \in {"pi", "sqrt", "log", "abs", "foo", "os", "__import__", "EXEC"}}

Calls ==
    {Call(Name(f), a) :
        f \in {"sqrt", "log", "abs", "pi", "foo", "__import__"}, a \in Atoms}

Attrs == {Attr(x, a) : x \in Atoms, a \in {"real", "system", "__class__"}}

BinOps == {BinOp(op, l, r) : op \in {"+", "/"}, l \in Atoms, r \in Atoms}

Expressions ==
    Atoms \cup Calls \cup Attrs \cup BinOps \cup {Import("os"), Malformed} \cup
    {BinOp("+", l, Call(Name(f), Num(4))) :
        l \in Calls \cup BinOps, f \in {"sqrt", "log", "abs", "pi", "foo", "__import__"}}

NoToolResult == [shown |-> "none", value |-> PyNone]

\* The calculate tool is called with an expression.
call_calculate ==
    /\ pc = "idle"
    /\ \E x \in Expressions : expression' = x
    /\ pc' = "calculate"
    /\ operation' = "calculate"
    /\ UNCHANGED <<calc_result, calc_path, eval_called, raised, tool_result,
                   generator_vars, password_vars, batch_vars>>
    /\ UNCHANGED extension_vars

\* result = UnitConverter.calculate(expression)
calculate_step ==
    /\ pc = "calculate"
    /\ LET c == calculate(expression) IN
          /\ calc_result' = c.value
          /\ calc_path' = c.path
          /\ eval_called' = c.eval_called
          /\ raised' = c.raised
          /\ pc' = IF c.path = "escaped" THEN "escaped" ELSE "calculate_tool"
    /\ UNCHANGED <<operation, expression, tool_result, generator_vars, password_vars, batch_vars>>
    /\ UNCHANGED extension_vars

\* if isinstance(result, str): return result
\* return f"... {expression} = {result}"
tool_shows(r) == IF r.t = "str" THEN "raw" ELSE "formatted"

calculate_tool ==
    /\ pc = "calculate_tool"
    /\ tool_result' = [shown |-> tool_shows(calc_result), value |-> calc_result]
    /\ pc' = "done"
    /\ UNCHANGED <<operation, expression, calc_result, calc_path, eval_called, raised,
                   generator_vars, password_vars, batch_vars>>
    /\ UNCHANGED extension_vars

(* ----------------------------- hash_string ------------------------------ *)
\* The keys of the `algorithms` table of hash_string.
algorithms == {"md5", "sha1", "sha256", "sha512"}

\* str.encode() of one character: UTF-8 takes one byte for an ASCII character
\* and two for U+00E9 (written "e'" here).
encode_char(c) ==
    CASE c = "a" -> <<97>>
      [] c = "b" -> <<98>>
      [] c = "e'" -> <<195, 169>>

RECURSIVE encode(_)
encode(str) == IF str = <<>> THEN <<>> ELSE encode_char(Head(str)) \o encode(Tail(str))

\* hashlib.<algorithm>(data).hexdigest(): the digest is a function of the
\* algorithm and of the bytes alone. It is kept as a term, the name of the
\* algorithm followed by the bytes in hexadecimal, so that two digests are
\* equal exactly when algorithm and bytes are.
hexdigest(name, data) == <<name>> \o hex_of(data)

\* A salted digest: two calls with the same arguments may differ.
hash_string_mutant(str, name) ==
    IF name \notin algorithms
    THEN {Raise("ValueError", "Unsupported algorithm. Choose from: md5, sha1, sha256, sha512")}
    ELSE {Return(hexdigest(name, <<salt>> \o encode(str))) : salt \in {0, 255}}

hash_string(str, name) ==
    IF name \notin algorithms
    THEN {Raise("ValueError", "Unsupported algorithm. Choose from: md5, sha1, sha256, sha512")}
    ELSE {Return(hexdigest(name, encode(str)))}

NoHashArgs == [text |-> <<>>, algorithm |-> ""]

\* The texts and the algorithm names the model passes to hash_string.
Texts == {<<"a", "b">>, <<"a", "e'">>}
AlgorithmNames == algorithms \cup {"SHA256", "sha3_256"}

\* The hash_text tool of the server calls hash_string.
hash_text ==
    /\ pc = "idle"
    /\ \E str \in Texts, name \in AlgorithmNames :
          hash_args' = [text |-> str, algorithm |-> name]
    /\ operation' = "hash_string"
    /\ pc' = "hash_string"
    /\ UNCHANGED <<generator_vars, password_vars, batch_vars, calc_vars, history>>
    /\ UNCHANGED <<shuffle_history, thread_vars>>

\* hash_string runs and returns a digest or raises.
call_hash_string ==
    /\ pc = "hash_string"
    /\ \E r \in hash_string(hash_args.text, hash_args.algorithm) : result' = r
    /\ pc' = "done"
    /\ UNCHANGED <<operation, caller, kwargs, draws, password_vars, batch_vars,
                   calc_vars, hash_vars>>
    /\ UNCHANGED <<shuffle_history, thread_vars>>

\* The calls that run at the same time, one per thread.
Threads == {1, 2}

\* The locals of a call of generate_password that has not started.
NoThread ==
    [pc |-> "idle", kwargs |-> NoKwargs, password |-> 0, i |-> 0,
     remaining_length |-> 0, draws |-> 0, last |-> 0, result |-> NoResult]

(* --------------------------- specification ------------------------------ *)
Init ==
    /\ pc = "idle"
    /\ operation = ""
    /\ caller = "direct"
    /\ kwargs = NoKwargs
    /\ password = <<>>
    /\ i = 0
    /\ remaining_length = 0
    /\ draws = 0
    /\ result = NoResult
    /\ generator_type = ""
    /\ count = 0
    /\ n = 0
    /\ results = <<>>
    /\ calls = <<>>
    /\ output = NoOutput
    /\ expression = Malformed
    /\ calc_result = PyNone
    /\ calc_path = "none"
    /\ eval_called = FALSE
    /\ raised = ""
    /\ tool_result = NoToolResult
    /\ hash_args = NoHashArgs
    /\ filled = <<>>
    /\ order = <<>>
    /\ js = <<>>
    /\ threads = [t \in Threads |-> NoThread]
    /\ lists = [t \in Threads |-> <<>>]
    /\ stream = 0
    /\ history = <<>>

\* The locals of a call that has ended are gone.
reset ==
    /\ pc' = "idle"
    /\ operation' = ""
    /\ caller' = "direct"
    /\ kwargs' = NoKwargs
    /\ password' = <<>>
    /\ i' = 0
    /\ remaining_length' = 0
    /\ draws' = 0
    /\ result' = NoResult
    /\ generator_type' = ""
    /\ count' = 0
    /\ n' = 0
    /\ results' = <<>>
    /\ calls' = <<>>
    /\ output' = NoOutput
    /\ expression' = Malformed
    /\ calc_result' = PyNone
    /\ calc_path' = "none"
    /\ eval_called' = FALSE
    /\ raised' = ""
    /\ tool_result' = NoToolResult
    /\ hash_args' = NoHashArgs
    /\ filled' = <<>>
    /\ order' = <<>>
    /\ js' = <<>>
    /\ UNCHANGED thread_vars

\* The call has ended and its locals are gone; the next call starts from scratch.
finish ==
    /\ pc \in {"done", "escaped"}
    /\ reset
    /\ UNCHANGED history

Next ==
    \/ dispatch
    \/ call_generate_uuid
    \/ call_generate_api_key
    \/ call_generate_token
    \/ call_generate_pin
    \/ call_generate_password
    \/ seed_uppercase
    \/ seed_lowercase
    \/ seed_digits
    \/ seed_symbols
    \/ fill
    \/ shuffle
    \/ generate_multiple
    \/ batch_loop
    \/ batch_record
    \/ call_calculate
    \/ calculate_step
    \/ calculate_tool
    \/ hash_text
    \/ call_hash_string
    \/ finish

Spec == Init /\ [][Next]_vars

(* ------------- hash_string among other calls, with a history ------------ *)
\* The call that has just ended, as the history keeps it: of a generator
\* call only its name.
ended ==
    [operation |-> operation,
     args |-> hash_args,
     result |-> IF operation = "hash_string" THEN result ELSE NoResult]

\* The next call is a call of hash_string.
next_hash_text ==
    /\ Len(history) < MaxHistory
    /\ hash_text

\* The next call is a call of another operation.
next_generator ==
    /\ Len(history) < MaxHistory
    /\ dispatch_of({"pin", "token"})

\* The call has ended: it enters the history and its locals are gone.
finish_recorded ==
    /\ pc = "done"
    /\ reset
    /\ history' = Append(history, ended)

NextHash ==
    \/ next_hash_text
    \/ call_hash_string
    \/ next_generator
    \/ call_generate_pin
    \/ call_generate_token
    \/ finish_recorded

SpecHash == Init /\ [][NextHash]_vars

(* ------------- generate_password with the shuffle loop traced ----------- *)
\* The arguments of the traced calls: the shortest password the code accepts,
\* of digits only.
ShuffleKwargs ==
    {[NoKwargs EXCEPT !.length = MinPasswordLength, !.include_digits = TRUE]}

next_password == \E k \in ShuffleKwargs : call_direct("password", k)

\* shuffled = list(password): `password` stays as it was filled, and every
\* position of `shuffled` holds the character of the same position.
fill_traced ==
    /\ fill_step
    /\ IF pc' = "shuffle"
       THEN /\ filled' = password
            /\ order' = [k \in 1..Len(password) |-> k]
       ELSE UNCHANGED <<filled, order>>
    /\ UNCHANGED <<js, hash_vars, thread_vars>>

\* One round of the shuffle loop, or the return that follows the loop.
shuffle_traced ==
    /\ IF i >= 1
       THEN \E j \in randbelow(i + 1) :
               /\ shuffle_swap(j)
               /\ order' = swap(order, i, j)
               /\ js' = Append(js, j)
       ELSE /\ shuffle_return
            /\ UNCHANGED <<order, js>>
    /\ UNCHANGED <<filled, hash_vars, thread_vars>>

NextShuffle ==
    \/ next_password
    \/ call_generate_password
    \/ seed_uppercase
    \/ seed_lowercase
    \/ seed_digits
    \/ seed_symbols
    \/ fill_traced
    \/ shuffle_traced
    \/ finish

SpecShuffle == Init /\ [][NextShuffle]_vars

(* ------------- concurrent calls of generate_password -------------------- *)
\* The arguments of the concurrent calls: the first asks for lowercase letters
\* and digits, the second for uppercase letters, of the minimum length or one
\* less.
ThreadKwargs(t) ==
    IF t = 1
    THEN {[NoKwargs EXCEPT !.length = MinPasswordLength,
                           !.include_lowercase = TRUE, !.include_digits = TRUE]}
    ELSE {[NoKwargs EXCEPT !.length = l, !.include_uppercase = TRUE] :
             l \in {MinPasswordLength - 1, MinPasswordLength}}

\* password = []: the call of thread t creates a list object of its own.
list_of_mutant(t) == 1

list_of(t) == t

\* The four seeding statements: the flag each tests, the class it draws from,
\* and the statement that follows.
seeds ==
    [seed_uppercase |-> [flag |-> "include_uppercase", class |-> ascii_uppercase,
                         next |-> "seed_lowercase"],
     seed_lowercase |-> [flag |-> "include_lowercase", class |-> ascii_lowercase,
                         next |-> "seed_digits"],
     seed_digits |-> [flag |-> "include_digits", class |-> digits,
                      next |-> "seed_symbols"],
     seed_symbols |-> [flag |-> "include_symbols", class |-> symbols, next |-> "fill"]]

\* The random source delivers one draw to thread t: its next draw, to no one else.
delivered(th) == [th EXCEPT !.draws = @ + 1, !.last = stream + 1]

thread_call(t) ==
    /\ threads[t].pc = "idle"
    /\ \E k \in ThreadKwargs(t) :
          threads' = [threads EXCEPT ![t].pc = "password", ![t].kwargs = k]
    /\ UNCHANGED <<lists, stream>>

\* The validations, then password = [].
thread_check(t) ==
    /\ threads[t].pc = "password"
    /\ LET check == password_check(threads[t].kwargs)
       IN IF check.kind = "raise"
          THEN /\ threads' = [threads EXCEPT ![t].result = check, ![t].pc = "done"]
               /\ UNCHANGED lists
          ELSE /\ threads' = [threads EXCEPT ![t].password = list_of(t),
                                             ![t].pc = "seed_uppercase"]
               /\ lists' = [lists EXCEPT ![list_of(t)] = <<>>]
    /\ UNCHANGED stream

\* if include_<class>: password.append(secrets.choice(<class string>)); after
\* the last of them, remaining_length = length - len(password).
thread_seed(t) ==
    LET th == threads[t]
        rest(th2, list) ==
            IF th2.pc = "fill"
            THEN [th2 EXCEPT !.remaining_length = remaining(th.kwargs.length, list)]
            ELSE th2
    IN /\ th.pc \in DOMAIN seeds
       /\ LET stmt == seeds[th.pc]
          IN IF th.kwargs[stmt.flag]
             THEN /\ \E c \in stmt.class :
                        lists' = [lists EXCEPT ![th.password] = Append(@, c)]
                  /\ stream' = stream + 1
                  /\ threads' = [threads EXCEPT ![t] =
                        rest([delivered(th) EXCEPT !.pc = stmt.next], lists'[th.password])]
             ELSE /\ threads' = [threads EXCEPT ![t] =
                        rest([th EXCEPT !.pc = stmt.next], lists[th.password])]
                  /\ UNCHANGED <<lists, stream>>

\* password.extend(secrets.choice(characters) for _ in range(remaining_length)),
\* then shuffled = list(password) and the loop variable's first value.
thread_fill(t) ==
    LET th == threads[t]
    IN /\ th.pc = "fill"
       /\ IF th.remaining_length > 0
          THEN /\ \E c \in characters(th.kwargs) :
                     lists' = [lists EXCEPT ![th.password] = Append(@, c)]
               /\ stream' = stream + 1
               /\ threads' = [threads EXCEPT ![t] =
                     [delivered(th) EXCEPT !.remaining_length = @ - 1]]
          ELSE /\ threads' = [threads EXCEPT ![t].pc = "shuffle",
                                             ![t].i = Len(lists[th.password]) - 1]
               /\ UNCHANGED <<lists, stream>>

\* One round of the shuffle loop, or the return that follows the loop.
thread_shuffle(t) ==
    LET th == threads[t]
    IN /\ th.pc = "shuffle"
       /\ IF th.i >= 1
          THEN /\ \E j \in randbelow(th.i + 1) :
                     lists' = [lists EXCEPT ![th.password] = swap(@, th.i, j)]
               /\ stream' = stream + 1
               /\ threads' = [threads EXCEPT ![t] = [delivered(th) EXCEPT !.i = @ - 1]]
          ELSE /\ threads' = [threads EXCEPT ![t].result = Return(lists[th.password]),
                                             ![t].pc = "done"]
               /\ UNCHANGED <<lists, stream>>

\* Any thread takes its next step.
concurrent_call == (\E t \in Threads : thread_call(t)) /\ UNCHANGED single_vars
concurrent_check == (\E t \in Threads : thread_check(t)) /\ UNCHANGED single_vars
concurrent_seed == (\E t \in Threads : thread_seed(t)) /\ UNCHANGED single_vars
concurrent_fill == (\E t \in Threads : thread_fill(t)) /\ UNCHANGED single_vars
concurrent_shuffle == (\E t \in Threads : thread_shuffle(t)) /\ UNCHANGED single_vars

NextThreads ==
    \/ concurrent_call
    \/ concurrent_check
    \/ concurrent_seed
    \/ concurrent_fill
    \/ concurrent_shuffle

SpecThreads == Init /\ [][NextThreads]_vars

(* ------------------------------ properties ------------------------------ *)
\* A call of generator `type` has ended with an outcome.
Finished(type) ==
    /\ pc \in {"done", "batch_record"}
    /\ called = type
    /\ result.kind # "none"

Chars(v) == {v[k] : k \in 1..Len(v)}

ClassOf ==
    [include_uppercase |-> ascii_uppercase, include_lowercase |-> ascii_lowercase,
     include_digits |-> digits, include_symbols |-> symbols]

ClassFlags == DOMAIN ClassOf

ValidPasswordSpec(k) ==
    /\ k.length >= 8
    /\ \E f \in ClassFlags : k[f]

InvalidSpecMessages ==
    {"Password length must be at least 8 characters",
     "At least one character type must be selected",
     "API key length must be at least 16 characters",
     "PIN length must be at least 4 digits"}

\* The InvalidSpec failure: a ValueError with one of the messages above and no value.
InvalidSpec(r) ==
    /\ r.kind = "raise"
    /\ r.exc = "ValueError"
    /\ r.msg \in InvalidSpecMessages
    /\ r.value = <<>>

\* C1: for every valid password spec and every sequence of random draws,
\* generate_password returns a string of exactly `length` characters with at least
\* one character of every selected class and none of a class that is not selected.
C1_PasswordMeetsSpec ==
    (Finished("password") /\ ValidPasswordSpec(kwargs)) =>
        /\ result.kind = "return"
        /\ Len(result.value) = kwargs.length
        /\ \A f \in ClassFlags :
              IF kwargs[f]
              THEN Chars(result.value) \cap ClassOf[f] # {}
              ELSE Chars(result.value) \cap ClassOf[f] = {}

\* A shuffled password of three classes has been returned: no symbol was selected
\* and the seeded uppercase character has left the first position.
C1_Witness ==
    /\ Finished("password")
    /\ kwargs.length = 8
    /\ kwargs.include_uppercase /\ kwargs.include_lowercase /\ kwargs.include_digits
    /\ ~kwargs.include_symbols
    /\ result.kind = "return"
    /\ result.value[1] = "0"
    /\ result.value[8] = "A"

\* C4: generate_password fails with InvalidSpec, without a password and without a
\* random draw, exactly when length < 8 or no character class is selected.
C4_InvalidSpecExactly ==
    Finished("password") =>
        /\ (result.kind = "raise") <=> ~ValidPasswordSpec(kwargs)
        /\ result.kind = "raise" =>
              /\ InvalidSpec(result)
              /\ draws = 0
              /\ password = <<>>

\* A password call with a sufficient length and no class selected has failed.
C4_Witness ==
    /\ Finished("password")
    /\ kwargs.length >= 8
    /\ \A f \in ClassFlags : ~kwargs[f]
    /\ InvalidSpec(result)

LowercaseHex ==
    {"0", "1", "2", "3", "4", "5", "6", "7", "8", "9", "a", "b", "c", "d", "e", "f"}

\* C7: for every lengthBytes >= 1 generate_token returns exactly 2 * lengthBytes
\* characters, each a lowercase hexadecimal digit.
C7_TokenIsHex ==
    (Finished("token") /\ kwargs.length >= 1) =>
        /\ result.kind = "return"
        /\ Len(result.value) = 2 * kwargs.length
        /\ Chars(result.value) \subseteq LowercaseHex

\* A two-byte token with a letter digit has been returned.
C7_Witness ==
    /\ Finished("token")
    /\ kwargs.length = 2
    /\ result.kind = "return"
    /\ result.value = <<"a", "f", "0", "9">>

Alphanumeric == ascii_uppercase \cup ascii_lowercase \cup digits

\* C8: generate_api_key returns a value iff length >= 16; the value has exactly
\* `length` alphanumeric characters; below 16 it fails with InvalidSpec.
C8_ApiKey ==
    Finished("api_key") =>
        /\ (result.kind = "return") <=> (kwargs.length >= 16)
        /\ result.kind = "return" =>
              /\ Len(result.value) = kwargs.length
              /\ Chars(result.value) \subseteq Alphanumeric
        /\ kwargs.length < 16 => InvalidSpec(result)

\* A key of the minimum length 16, mixing a letter and a digit, has been returned.
C8_Witness ==
    /\ Finished("api_key")
    /\ kwargs.length = 16
    /\ result.kind = "return"
    /\ Chars(result.value) = {"a", "0"}

\* C9: generate_pin returns a value iff length >= 4; the value has exactly
\* `length` decimal digits; below 4 it fails with InvalidSpec.
C9_Pin ==
    Finished("pin") =>
        /\ (result.kind = "return") <=> (kwargs.length >= 4)
        /\ result.kind = "return" =>
              /\ Len(result.value) = kwargs.length
              /\ Chars(result.value) \subseteq digits
        /\ kwargs.length < 4 => InvalidSpec(result)

\* A PIN of the minimum length 4 has been returned.
C9_Witness ==
    /\ Finished("pin")
    /\ kwargs.length = 4
    /\ result.kind = "return"
    /\ Len(result.value) = 4

\* The canonical form of a UUID: 8-4-4-4-12 hexadecimal digits.
IsUuidString(v) ==
    /\ Len(v) = 36
    /\ \A k \in 1..36 :
          IF k \in {9, 14, 19, 24} THEN v[k] = "-" ELSE v[k] \in LowercaseHex

\* The UnsupportedVersion failure.
UnsupportedVersion(r) ==
    /\ r.kind = "raise"
    /\ r.exc = "ValueError"
    /\ r.msg = "Only UUID version 1 and 4 are supported"
    /\ r.value = <<>>

\* C10: generate_uuid returns a UUID string for version 1 or 4 and fails with
\* UnsupportedVersion, returning nothing, for every other version.
C10_UuidVersions ==
    Finished("uuid") =>
        IF kwargs.version \in {1, 4}
        THEN result.kind = "return" /\ IsUuidString(result.value)
        ELSE UnsupportedVersion(result)

\* A version that is neither 1 nor 4 has been refused.
C10_Witness ==
    /\ Finished("uuid")
    /\ kwargs.version = 3
    /\ UnsupportedVersion(result)

\* An entry of the batch holds the outcome r under the number k.
Holds(e, k, r) ==
    /\ e.index = k
    /\ IF r.kind = "return"
       THEN e.sep = ". " /\ e.text = r.value
       ELSE e.sep = ". Error: " /\ e.text = <<r.msg>>

\* C3: the batch runner invokes the generator exactly `count` times, in order, and
\* returns `count` entries, entry k holding the outcome of invocation k (a value
\* or its failure); a failure neither ends the loop nor touches another entry.
C3_BatchKeepsEveryOutcome ==
    (operation = "generate_multiple" /\ generator_type \in generators) =>
        /\ pc # "escaped"
        /\ Len(calls) <= count
        /\ n = Len(results)
        /\ Len(calls) = n
        /\ \A k \in 1..Len(results) : Holds(results[k], k, calls[k])
        /\ pc = "done" =>
              /\ Len(calls) = count
              /\ output.kind = "list"
              /\ output.lines = results
              /\ Len(output.lines) = count

\* A batch of two has ended although its first invocation failed.
C3_Witness ==
    /\ operation = "generate_multiple"
    /\ pc = "done"
    /\ count = 2
    /\ Len(calls) = 2
    /\ calls[1].kind = "raise"
    /\ Len(output.lines) = 2
    /\ output.lines[2].index = 2

\* The identifiers an expression mentions: names, attribute names, module names.
RECURSIVE Identifiers(_)
Identifiers(x) ==
    (IF x.node \in {"name", "attr", "import"} THEN {x.id} ELSE {}) \cup
    UNION {Identifiers(x.kids[k]) : k \in 1..Len(x.kids)}

\* The allow-list: the constants pi and e and the fifteen functions.
AllowList ==
    {"pi", "e", "abs", "round", "min", "max", "sum", "pow", "sqrt", "sin", "cos",
     "tan", "log", "log10", "exp", "ceil", "floor"}

\* Any import syntax or attribute access counts as outside the allow-list.
HasDisallowedIdentifier(x) ==
    \/ Identifiers(x) \ AllowList # {}
    \/ x.node = "import"

CalculateReturned ==
    /\ operation = "calculate"
    /\ pc \in {"calculate_tool", "done"}

\* C2: an expression with an identifier outside the allow-list ends in the
\* DisallowedIdentifier failure and is never handed to eval().
C2_DisallowedNeverEvaluated ==
    (CalculateReturned /\ HasDisallowedIdentifier(expression)) =>
        /\ calc_path = "forbidden"
        /\ ~eval_called

IsCalculationError(v) ==
    /\ v.t = "str"
    /\ Len(v.s) = 2
    /\ v.s[1] = "[x] Calculation error: "

\* C5: every call of the evaluator ends in a returned result or a returned
\* failure, never in an exception that reaches the caller; a domain error
\* (sqrt of a negative number, log of a non-positive number, division by zero)
\* ends in the calculation-error failure.
C5_EveryFailureReturned ==
    (operation = "calculate" /\ pc \in {"calculate_tool", "done", "escaped"}) =>
        /\ pc # "escaped"
        /\ calc_path \in {"returned", "forbidden", "except"}
        /\ (calc_path = "except") <=> IsCalculationError(calc_result)
        /\ raised # "" => calc_path = "except"
        /\ expression \in
              {Call(Name("sqrt"), Num(-1)), Call(Name("log"), Num(0)),
               Call(Name("log"), Num(-1)), BinOp("/", Num(4), Num(0))}
              => /\ raised \in {"ValueError", "ZeroDivisionError"}
                 /\ IsCalculationError(calc_result)

\* A division by zero has been returned as a calculation error.
C5_Witness ==
    /\ operation = "calculate"
    /\ pc = "done"
    /\ expression = BinOp("/", Num(4), Num(0))
    /\ raised = "ZeroDivisionError"
    /\ IsCalculationError(calc_result)

\* C6: a successful evaluation returns a number, and the calculate tool passes a
\* value through unformatted exactly when it is a failure message.
C6_SuccessIsNumber ==
    (operation = "calculate" /\ pc = "done") =>
        /\ calc_path = "returned" => is_number(calc_result)
        /\ (tool_result.shown = "raw") <=> (calc_path # "returned")

\* The InvalidArgument failure of generate_token: a ValueError and no value.
InvalidArgument(r) ==
    /\ r.kind = "raise"
    /\ r.exc = "ValueError"
    /\ r.value = <<>>

\* C12: generate_token returns a value only when lengthBytes >= 1; for
\* lengthBytes = 0 and for a negative lengthBytes it fails with InvalidArgument,
\* so it never returns the empty string.
C12_TokenRejectsNonPositive ==
    Finished("token") =>
        /\ result.kind = "return" => (kwargs.length >= 1 /\ result.value # <<>>)
        /\ kwargs.length <= 0 => InvalidArgument(result)

\* The sub-expressions of an expression, the expression itself included.
RECURSIVE SubExpressions(_)
SubExpressions(x) ==
    {x} \cup UNION {SubExpressions(x.kids[k]) : k \in 1..Len(x.kids)}

\* The sub-expressions whose evaluation is a domain error.
DomainErrors ==
    {Call(Name("sqrt"), Num(-1)), Call(Name("log"), Num(0)),
     Call(Name("log"), Num(-1)), BinOp("/", Num(4), Num(0))}

\* C13: validation of the whole expression completes before any evaluation: an
\* expression with both a disallowed identifier and a domain-error
\* sub-expression (a division by zero written before the disallowed call, say)
\* ends in the DisallowedIdentifier failure, and none of its sub-expressions
\* has been evaluated, so no domain error has been raised.
C13_ValidationBeforeEvaluation ==
    (/\ CalculateReturned
     /\ HasDisallowedIdentifier(expression)
     /\ SubExpressions(expression) \cap DomainErrors # {}) =>
        /\ calc_path = "forbidden"
        /\ ~eval_called
        /\ raised \notin {"ZeroDivisionError", "ValueError"}
        /\ ~IsCalculationError(calc_result)

\* The UnsupportedAlgorithm failure of hash_string.
UnsupportedAlgorithm(r) ==
    /\ r.kind = "raise"
    /\ r.exc = "ValueError"
    /\ r.msg = "Unsupported algorithm. Choose from: md5, sha1, sha256, sha512"

HashCalls == {k \in 1..Len(history) : history[k].operation = "hash_string"}

IsArrangement(p) ==
    /\ DOMAIN p = 1..Len(p)
    /\ {p[k] : k \in 1..Len(p)} = 1..Len(p)

Identity(len) == [k \in 1..len |-> k]

\* s with the entries at the positions a and b (1-based) exchanged.
Transposed(s, a, b) ==
    [k \in 1..Len(s) |-> IF k = a THEN s[b] ELSE IF k = b THEN s[a] ELSE s[k]]

\* The arrangement Fisher-Yates makes of len positions from the draws ds: draw
\* number r is used at the index len - r (0-based), counting down from the last.
RECURSIVE FisherYates(_, _)
FisherYates(len, ds) ==
    IF ds = <<>>
    THEN Identity(len)
    ELSE LET r == Len(ds)
         IN Transposed(FisherYates(len, SubSeq(ds, 1, r - 1)), len - r + 1, ds[r] + 1)

\* The draws of the rounds r..rounds that lead from the arrangement b to one
\* that agrees with p on the positions those rounds settle.
RECURSIVE DrawsOf(_, _, _, _)
DrawsOf(p, b, r, rounds) ==
    IF r > rounds
    THEN <<>>
    ELSE LET at == Len(p) - r + 1
             from == CHOOSE k \in 1..at : b[k] = p[at]
         IN <<from - 1>> \o DrawsOf(p, Transposed(b, at, from), r + 1, rounds)

\* ds are draws the loop over len positions accepts: 0 <= j <= i in every round.
ValidDraws(len, ds) ==
    /\ Len(ds) <= len - 1
    /\ \A r \in 1..Len(ds) : ds[r] \in 0..(len - r)

\* C14: the shuffle is a Fisher-Yates pass over the seeded and filled buffer. It
\* starts after seeding and filling; i runs from the last index down to 1; every
\* round draws j with 0 <= j <= i, each such j being possible, and exchanges the
\* positions i and j; the result is a permutation of the buffer as it was before
\* the shuffle; distinct draw sequences give distinct permutations of the
\* positions, and every permutation is the outcome of a draw sequence.
C14_FisherYates ==
    /\ (operation = "password" /\ pc \notin {"shuffle", "done"}) =>
          (filled = <<>> /\ order = <<>> /\ js = <<>>)
    /\ (operation = "password" /\ (pc = "shuffle" \/ result.kind = "return")) =>
          LET len == Len(filled) IN
          /\ len = kwargs.length
          /\ remaining_length = 0
          /\ draws = len + Len(js)
          /\ i \in 0..(len - 1)
          /\ Len(js) = len - 1 - i
          /\ pc = "done" => i = 0
          /\ ValidDraws(len, js)
          /\ order = FisherYates(len, js)
          /\ IsArrangement(order)
          /\ Len(password) = len
          /\ \A k \in 1..len : password[k] = filled[order[k]]
          /\ js = DrawsOf(order, Identity(len), 1, Len(js))
          /\ (pc = "shuffle" /\ i >= 1) =>
                \A j \in 0..i : ENABLED (shuffle_traced /\ js' = Append(js, j))
          /\ (pc = "shuffle" /\ js = <<>>) =>
                \A p \in Permutations(1..len) :
                    LET ds == DrawsOf(p, Identity(len), 1, len - 1)
                    IN ValidDraws(len, ds) /\ FisherYates(len, ds) = p

\* generate_password has returned a password whose positions the shuffle
\* reversed.
C14_Witness ==
    /\ operation = "password"
    /\ pc = "done"
    /\ result.kind = "return"
    /\ Len(order) = MinPasswordLength
    /\ \A k \in 1..Len(order) : order[k] = Len(order) + 1 - k
    /\ result.value = [k \in 1..Len(order) |-> filled[order[k]]]

\* The draws delivered to the threads of S, added up.
RECURSIVE DrawsOfThreads(_)
DrawsOfThreads(S) ==
    IF S = {}
    THEN 0
    ELSE LET t == CHOOSE u \in S : TRUE IN threads[t].draws + DrawsOfThreads(S \ {t})

\* The password specification of thread t's call holds for its outcome r.
MeetsOwnSpec(k, r) ==
    IF ValidPasswordSpec(k)
    THEN /\ r.kind = "return"
         /\ Len(r.value) = k.length
         /\ \A f \in ClassFlags :
               IF k[f]
               THEN Chars(r.value) \cap ClassOf[f] # {}
               ELSE Chars(r.value) \cap ClassOf[f] = {}
    ELSE InvalidSpec(r)

\* C15: generator calls that run interleaved share no mutable state but the
\* random source. Each call's buffer is its own list, holding only what that
\* call has put there; every draw the source delivers goes to one call; and
\* each call's result meets its own specification, however the steps interleave.
C15_CallsShareOnlyTheSource ==
    /\ \A t, u \in Threads :
          (t # u /\ threads[t].password # 0) =>
              /\ threads[t].password # threads[u].password
              /\ threads[t].last # threads[u].last \/ threads[t].last = 0
    /\ stream = DrawsOfThreads(Threads)
    /\ \A t \in Threads :
          LET th == threads[t] IN
          /\ th.last \in 0..stream
          /\ (th.last = 0) <=> (th.draws = 0)
          /\ th.pc \in (DOMAIN seeds) \cup {"fill"} =>
                /\ Len(lists[th.password]) = th.draws
                /\ Chars(lists[th.password]) \subseteq characters(th.kwargs)
          /\ th.pc = "fill" =>
                th.remaining_length = th.kwargs.length - Len(lists[th.password])
          /\ th.pc = "shuffle" =>
                /\ Len(lists[th.password]) = th.kwargs.length
                /\ Chars(lists[th.password]) \subseteq characters(th.kwargs)
                /\ th.draws = 2 * th.kwargs.length - 1 - th.i
          /\ th.pc = "done" => MeetsOwnSpec(th.kwargs, th.result)

\* Both calls have returned a password, the first of lowercase letters and
\* digits and the second of uppercase letters, and their last draws were
\* interleaved: the source's last draw went to the first call and the one before
\* it to the second.
C15_Witness ==
    /\ \A t \in Threads : threads[t].pc = "done" /\ threads[t].result.kind = "return"
    /\ threads[1].last = stream
    /\ threads[2].last = stream - 1
    /\ Chars(threads[1].result.value) = {"a", "0"}
    /\ Chars(threads[2].result.value) = {"A"}
    /\ Len(threads[2].result.value) = MinPasswordLength

====
